---- MODULE Spec2Model ----
(***************************************************************************)
(* Exact solutions of the zero dimensional LLG (simplellg/mallinson.py).   *)
(*                                                                         *)
(* Numbers.  Python floats are binary floating point numbers; they are     *)
(* modelled in the same format with a shorter significand: a record        *)
(* [m, e] stands for m * 2^e, with 2^(MantBits-1) <= |m| < 2^MantBits or   *)
(* m = 0, and every operation rounds its exact result to the nearest such  *)
(* number (ties to even), as IEEE arithmetic does.                         *)
(*                                                                         *)
(* Angles.  A polar angle is an index k in 0..AngleUnits and stands for    *)
(* the float k*pi/AngleUnits; sin, cos and tan(./2) are the values the     *)
(* math library returns for these floats, rounded to the format above.     *)
(* In particular (math.pi is a float just below the real pi):              *)
(*     tan(pi/2) = 1.633e16,  sin(pi) = 1.22e-16,  cos(pi/2) = 6.1e-17     *)
(***************************************************************************)
EXTENDS Integers, Sequences, FiniteSets, TLC

\* Bits of a significand (a double has 53).
MantBits == 15

\* pi is AngleUnits units, so that the default start angle pi/18 is 12 units.
AngleUnits == 216

\* The largest number of samples a call of generate_dynamics asks for.
MaxSteps == 4

Pow2Table ==
   <<1, 2, 4, 8, 16, 32, 64, 128, 256, 512, 1024, 2048, 4096, 8192, 16384, 32768,
     65536, 131072, 262144, 524288, 1048576, 2097152, 4194304, 8388608, 16777216,
     33554432, 67108864, 134217728, 268435456, 536870912, 1073741824>>

Pow2(n) == IF n <= 0 THEN 1 ELSE Pow2Table[n + 1]

Abs(n) == IF n < 0 THEN -n ELSE n

Sign(n) == IF n < 0 THEN -1 ELSE IF n > 0 THEN 1 ELSE 0

\* The number of bits of n > 0, by binary search.
BitLen(n) ==
   IF n <= 0 THEN 0 ELSE
      (IF n < 32768 THEN (IF n < 128 THEN (IF n < 8 THEN (IF n < 2 THEN 1
      ELSE (IF n < 4 THEN 2 ELSE 3)) ELSE (IF n < 32 THEN (IF n < 16 THEN 4
      ELSE 5) ELSE (IF n < 64 THEN 6 ELSE 7))) ELSE (IF n < 2048 THEN (IF n
      < 512 THEN (IF n < 256 THEN 8 ELSE 9) ELSE (IF n < 1024 THEN 10 ELSE
      11)) ELSE (IF n < 8192 THEN (IF n < 4096 THEN 12 ELSE 13) ELSE (IF n
      < 16384 THEN 14 ELSE 15)))) ELSE (IF n < 8388608 THEN (IF n < 524288
      THEN (IF n < 131072 THEN (IF n < 65536 THEN 16 ELSE 17) ELSE (IF n <
      262144 THEN 18 ELSE 19)) ELSE (IF n < 2097152 THEN (IF n < 1048576
      THEN 20 ELSE 21) ELSE (IF n < 4194304 THEN 22 ELSE 23))) ELSE (IF n <
      134217728 THEN (IF n < 33554432 THEN (IF n < 16777216 THEN 24 ELSE
      25) ELSE (IF n < 67108864 THEN 26 ELSE 27)) ELSE (IF n < 536870912
      THEN (IF n < 268435456 THEN 28 ELSE 29) ELSE (IF n < 1073741824 THEN
      30 ELSE 31)))))

Zero == [m |-> 0, e |-> 0]

\* q + r/d rounded to the nearest integer, ties to even (0 <= r < d).
RoundHalfEven(q, r, d) ==
   IF 2 * r > d \/ (2 * r = d /\ q % 2 = 1) THEN q + 1 ELSE q

\* n / 2^k rounded to the nearest integer (n >= 0, k >= 0).
RoundShift(n, k) == RoundHalfEven(n \div Pow2(k), n % Pow2(k), Pow2(k))

\* s * q * 2^e, where rounding may have carried q up to 2^MantBits.
Carry(s, q, e) ==
   IF q = Pow2(MantBits) THEN [m |-> s * Pow2(MantBits - 1), e |-> e + 1]
   ELSE [m |-> s * q, e |-> e]

\* The float nearest to s * a * 2^e, where a > 0 has b bits.
NormBits(s, a, b, e) ==
   IF b <= MantBits
   THEN [m |-> s * a * Pow2(MantBits - b), e |-> e - (MantBits - b)]
   ELSE Carry(s, RoundShift(a, b - MantBits), e + (b - MantBits))

\* The float nearest to n * 2^e.
Norm(n, e) == IF n = 0 THEN Zero ELSE NormBits(Sign(n), Abs(n), BitLen(Abs(n)), e)

FromInt(n) == Norm(n, 0)

FNeg(x) == [m |-> -x.m, e |-> x.e]

FAbs(x) == [m |-> Abs(x.m), e |-> x.e]

FMul(x, y) == Norm(x.m * y.m, x.e + y.e)

\* Twice the quotient n / d, with the lowest bit set when a remainder is left,
\* so that rounding it rounds the exact quotient.
StickyQuotient(n, d) == 2 * (n \div d) + (IF n % d = 0 THEN 0 ELSE 1)

\* x / y for y # 0.
FDiv(x, y) ==
   IF x.m = 0 THEN Zero
   ELSE Norm(Sign(x.m) * Sign(y.m)
                * StickyQuotient(Abs(x.m) * Pow2(MantBits + 1), Abs(y.m)),
             x.e - y.e - MantBits - 2)

\* hi + lo for hi.e >= lo.e: a lo below a quarter of hi's last place is lost.
AddAligned(hi, lo) ==
   IF hi.e - lo.e > MantBits + 1 THEN hi
   ELSE Norm(hi.m * Pow2(hi.e - lo.e) + lo.m, lo.e)

FAdd(x, y) ==
   IF x.m = 0 THEN y
   ELSE IF y.m = 0 THEN x
   ELSE IF x.e >= y.e THEN AddAligned(x, y)
   ELSE AddAligned(y, x)

FSub(x, y) == FAdd(x, FNeg(y))

FLt(x, y) == FSub(x, y).m < 0

FLe(x, y) == FSub(x, y).m <= 0

\* n / d as a float literal such as 1.1 is: the float nearest to it.
Rat(n, d) == FDiv(FromInt(n), FromInt(d))

\* The fixed point unit of the logarithm is 2^-LogScaleBits.
LogScaleBits == 16

\* ln 2 in that unit.
Ln2Fix == 45426

\* 1 + z2/3 + z2^2/5 + z2^3/7 + z2^4/9 in units of 1/one.
AtanhSeries(z2, one) ==
   one + (z2 * (one \div 3 + (z2 * (one \div 5 + (z2 * (one \div 7
      + (z2 * (one \div 9)) \div one)) \div one)) \div one)) \div one

\* ln f = 2 * atanh(z) for z = (f-1)/(f+1), in units of 1/one.
LnMantissa(z, one) ==
   (2 * z * (AtanhSeries((z * z) \div one, one) \div 4)) \div (one \div 4)

\* math.log for x > 0: ln(f * 2^k) = k * ln 2 + ln f with 1 <= f < 2.
FLog(x) ==
   Norm((x.e + MantBits - 1) * Ln2Fix
           + LnMantissa(((x.m - Pow2(MantBits - 1)) * Pow2(LogScaleBits))
                           \div (x.m + Pow2(MantBits - 1)),
                        Pow2(LogScaleBits)),
        -LogScaleBits)

\* (a * 2^d) mod w.
RECURSIVE MulPow2Mod(_, _, _)
MulPow2Mod(a, d, w) == IF d <= 0 THEN a % w ELSE MulPow2Mod((2 * a) % w, d - 1, w)

\* math.fmod for w > 0: the exact remainder of x / w, with the sign of x.
Fmod(x, w) ==
   IF x.m = 0 THEN Zero
   ELSE IF FLt(FAbs(x), w) THEN x
   ELSE Norm(Sign(x.m) * MulPow2Mod(Abs(x.m), x.e - w.e, w.m), w.e)

\* A remainder of the other sign than w > 0 is shifted by w, in float arithmetic.
ShiftRemainder(mod, w) ==
   IF mod.m = 0 THEN Zero
   ELSE IF mod.m < 0 THEN FAdd(mod, w)
   ELSE mod

\* The float operator x % w for w > 0.
FMod(x, w) == ShiftRemainder(Fmod(x, w), w)

One == FromInt(1)

\* math.pi, and the 2*pi of azi_into_range.
pi == [m |-> 25736, e |-> -13]

TwoPi == FMul(FromInt(2), pi)

\* sp.inf, which only the guard that the source comments out returns.
Infinity == [m |-> 1, e |-> 1000000]

IsFinite(x) == x # Infinity

(***************************************************************************)
(* tan(p/2), sin(p) and cos(p) of the float p = k*pi/AngleUnits, entry k+1 *)
(* as <<m, e>>.                                                            *)
(***************************************************************************)
TanHalfTable ==
   <<
      <<0, 0>>, <<30502, -22>>, <<30504, -21>>, <<22880, -20>>, <<30510, -20>>, <<19072, -19>>,
      <<22891, -19>>, <<26712, -19>>, <<30536, -19>>, <<17182, -18>>, <<19097, -18>>, <<21015, -18>>,
      <<22935, -18>>, <<24857, -18>>, <<26782, -18>>, <<28709, -18>>, <<30640, -18>>, <<32574, -18>>,
      <<17256, -17>>, <<18227, -17>>, <<19199, -17>>, <<20174, -17>>, <<21151, -17>>, <<22130, -17>>,
      <<23112, -17>>, <<24096, -17>>, <<25082, -17>>, <<26072, -17>>, <<27064, -17>>, <<28060, -17>>,
      <<29058, -17>>, <<30060, -17>>, <<31065, -17>>, <<32073, -17>>, <<16543, -16>>, <<17050, -16>>,
      <<17560, -16>>, <<18072, -16>>, <<18586, -16>>, <<19102, -16>>, <<19620, -16>>, <<20141, -16>>,
      <<20663, -16>>, <<21189, -16>>, <<21716, -16>>, <<22246, -16>>, <<22779, -16>>, <<23315, -16>>,
      <<23853, -16>>, <<24394, -16>>, <<24938, -16>>, <<25486, -16>>, <<26036, -16>>, <<26589, -16>>,
      <<27146, -16>>, <<27706, -16>>, <<28269, -16>>, <<28837, -16>>, <<29407, -16>>, <<29982, -16>>,
      <<30560, -16>>, <<31142, -16>>, <<31728, -16>>, <<32319, -16>>, <<16457, -15>>, <<16756, -15>>,
      <<17058, -15>>, <<17362, -15>>, <<17668, -15>>, <<17977, -15>>, <<18288, -15>>, <<18602, -15>>,
      <<18919, -15>>, <<19238, -15>>, <<19559, -15>>, <<19884, -15>>, <<20212, -15>>, <<20542, -15>>,
      <<20876, -15>>, <<21212, -15>>, <<21552, -15>>, <<21895, -15>>, <<22241, -15>>, <<22591, -15>>,
      <<22944, -15>>, <<23301, -15>>, <<23662, -15>>, <<24026, -15>>, <<24395, -15>>, <<24767, -15>>,
      <<25144, -15>>, <<25525, -15>>, <<25910, -15>>, <<26299, -15>>, <<26693, -15>>, <<27092, -15>>,
      <<27496, -15>>, <<27904, -15>>, <<28318, -15>>, <<28737, -15>>, <<29161, -15>>, <<29591, -15>>,
      <<30026, -15>>, <<30468, -15>>, <<30915, -15>>, <<31369, -15>>, <<31828, -15>>, <<32295, -15>>,
      <<16384, -14>>, <<16624, -14>>, <<16868, -14>>, <<17115, -14>>, <<17366, -14>>, <<17621, -14>>,
      <<17880, -14>>, <<18143, -14>>, <<18411, -14>>, <<18682, -14>>, <<18959, -14>>, <<19240, -14>>,
      <<19526, -14>>, <<19817, -14>>, <<20113, -14>>, <<20414, -14>>, <<20721, -14>>, <<21034, -14>>,
      <<21352, -14>>, <<21677, -14>>, <<22008, -14>>, <<22345, -14>>, <<22689, -14>>, <<23040, -14>>,
      <<23399, -14>>, <<23765, -14>>, <<24139, -14>>, <<24520, -14>>, <<24911, -14>>, <<25310, -14>>,
      <<25718, -14>>, <<26135, -14>>, <<26563, -14>>, <<27000, -14>>, <<27448, -14>>, <<27907, -14>>,
      <<28378, -14>>, <<28861, -14>>, <<29356, -14>>, <<29864, -14>>, <<30386, -14>>, <<30922, -14>>,
      <<31473, -14>>, <<32040, -14>>, <<32623, -14>>, <<16612, -13>>, <<16921, -13>>, <<17239, -13>>,
      <<17568, -13>>, <<17907, -13>>, <<18256, -13>>, <<18618, -13>>, <<18991, -13>>, <<19377, -13>>,
      <<19777, -13>>, <<20191, -13>>, <<20620, -13>>, <<21066, -13>>, <<21528, -13>>, <<22008, -13>>,
      <<22507, -13>>, <<23027, -13>>, <<23568, -13>>, <<24133, -13>>, <<24722, -13>>, <<25338, -13>>,
      <<25982, -13>>, <<26656, -13>>, <<27363, -13>>, <<28105, -13>>, <<28886, -13>>, <<29707, -13>>,
      <<30573, -13>>, <<31487, -13>>, <<32454, -13>>, <<16739, -12>>, <<17282, -12>>, <<17860, -12>>,
      <<18476, -12>>, <<19133, -12>>, <<19837, -12>>, <<20592, -12>>, <<21404, -12>>, <<22281, -12>>,
      <<23230, -12>>, <<24260, -12>>, <<25383, -12>>, <<26612, -12>>, <<27963, -12>>, <<29455, -12>>,
      <<31112, -12>>, <<16481, -11>>, <<17522, -11>>, <<18700, -11>>, <<20046, -11>>, <<21599, -11>>,
      <<23409, -11>>, <<25547, -11>>, <<28112, -11>>, <<31246, -11>>, <<17581, -10>>, <<20098, -10>>,
      <<23453, -10>>, <<28150, -10>>, <<17596, -9>>, <<23465, -9>>, <<17600, -8>>, <<17601, -7>>,
      <<29706, 39>>
   >>

SinTable ==
   <<
      <<0, 0>>, <<30501, -21>>, <<30498, -20>>, <<22869, -19>>, <<30485, -19>>, <<19047, -18>>,
      <<22847, -18>>, <<26643, -18>>, <<30433, -18>>, <<17108, -17>>, <<18997, -17>>, <<20881, -17>>,
      <<22760, -17>>, <<24635, -17>>, <<26505, -17>>, <<28369, -17>>, <<30227, -17>>, <<32079, -17>>,
      <<16962, -16>>, <<17881, -16>>, <<18796, -16>>, <<19707, -16>>, <<20614, -16>>, <<21517, -16>>,
      <<22415, -16>>, <<23308, -16>>, <<24196, -16>>, <<25080, -16>>, <<25957, -16>>, <<26830, -16>>,
      <<27697, -16>>, <<28558, -16>>, <<29413, -16>>, <<30261, -16>>, <<31103, -16>>, <<31939, -16>>,
      <<16384, -15>>, <<16795, -15>>, <<17202, -15>>, <<17606, -15>>, <<18006, -15>>, <<18403, -15>>,
      <<18795, -15>>, <<19183, -15>>, <<19568, -15>>, <<19948, -15>>, <<20324, -15>>, <<20696, -15>>,
      <<21063, -15>>, <<21426, -15>>, <<21784, -15>>, <<22138, -15>>, <<22487, -15>>, <<22831, -15>>,
      <<23170, -15>>, <<23505, -15>>, <<23835, -15>>, <<24159, -15>>, <<24479, -15>>, <<24793, -15>>,
      <<25102, -15>>, <<25405, -15>>, <<25704, -15>>, <<25997, -15>>, <<26284, -15>>, <<26566, -15>>,
      <<26842, -15>>, <<27112, -15>>, <<27377, -15>>, <<27636, -15>>, <<27889, -15>>, <<28137, -15>>,
      <<28378, -15>>, <<28613, -15>>, <<28842, -15>>, <<29066, -15>>, <<29283, -15>>, <<29493, -15>>,
      <<29698, -15>>, <<29896, -15>>, <<30088, -15>>, <<30274, -15>>, <<30453, -15>>, <<30626, -15>>,
      <<30792, -15>>, <<30952, -15>>, <<31105, -15>>, <<31251, -15>>, <<31391, -15>>, <<31525, -15>>,
      <<31651, -15>>, <<31771, -15>>, <<31885, -15>>, <<31991, -15>>, <<32091, -15>>, <<32184, -15>>,
      <<32270, -15>>, <<32350, -15>>, <<32422, -15>>, <<32488, -15>>, <<32546, -15>>, <<32598, -15>>,
      <<32643, -15>>, <<32681, -15>>, <<32713, -15>>, <<32737, -15>>, <<32754, -15>>, <<32765, -15>>,
      <<16384, -14>>, <<32765, -15>>, <<32754, -15>>, <<32737, -15>>, <<32713, -15>>, <<32681, -15>>,
      <<32643, -15>>, <<32598, -15>>, <<32546, -15>>, <<32488, -15>>, <<32422, -15>>, <<32350, -15>>,
      <<32270, -15>>, <<32184, -15>>, <<32091, -15>>, <<31991, -15>>, <<31885, -15>>, <<31771, -15>>,
      <<31651, -15>>, <<31525, -15>>, <<31391, -15>>, <<31251, -15>>, <<31105, -15>>, <<30952, -15>>,
      <<30792, -15>>, <<30626, -15>>, <<30453, -15>>, <<30274, -15>>, <<30088, -15>>, <<29896, -15>>,
      <<29698, -15>>, <<29493, -15>>, <<29283, -15>>, <<29066, -15>>, <<28842, -15>>, <<28613, -15>>,
      <<28378, -15>>, <<28137, -15>>, <<27889, -15>>, <<27636, -15>>, <<27377, -15>>, <<27112, -15>>,
      <<26842, -15>>, <<26566, -15>>, <<26284, -15>>, <<25997, -15>>, <<25704, -15>>, <<25405, -15>>,
      <<25102, -15>>, <<24793, -15>>, <<24479, -15>>, <<24159, -15>>, <<23835, -15>>, <<23505, -15>>,
      <<23170, -15>>, <<22831, -15>>, <<22487, -15>>, <<22138, -15>>, <<21784, -15>>, <<21426, -15>>,
      <<21063, -15>>, <<20696, -15>>, <<20324, -15>>, <<19948, -15>>, <<19568, -15>>, <<19183, -15>>,
      <<18795, -15>>, <<18403, -15>>, <<18006, -15>>, <<17606, -15>>, <<17202, -15>>, <<16795, -15>>,
      <<16384, -15>>, <<31939, -16>>, <<31103, -16>>, <<30261, -16>>, <<29413, -16>>, <<28558, -16>>,
      <<27697, -16>>, <<26830, -16>>, <<25957, -16>>, <<25080, -16>>, <<24196, -16>>, <<23308, -16>>,
      <<22415, -16>>, <<21517, -16>>, <<20614, -16>>, <<19707, -16>>, <<18796, -16>>, <<17881, -16>>,
      <<16962, -16>>, <<32079, -17>>, <<30227, -17>>, <<28369, -17>>, <<26505, -17>>, <<24635, -17>>,
      <<22760, -17>>, <<20881, -17>>, <<18997, -17>>, <<17108, -17>>, <<30433, -18>>, <<26643, -18>>,
      <<22847, -18>>, <<19047, -18>>, <<30485, -19>>, <<22869, -19>>, <<30498, -20>>, <<30501, -21>>,
      <<18073, -67>>
   >>

CosTable ==
   <<
      <<16384, -14>>, <<32765, -15>>, <<32754, -15>>, <<32737, -15>>, <<32713, -15>>, <<32681, -15>>,
      <<32643, -15>>, <<32598, -15>>, <<32546, -15>>, <<32488, -15>>, <<32422, -15>>, <<32350, -15>>,
      <<32270, -15>>, <<32184, -15>>, <<32091, -15>>, <<31991, -15>>, <<31885, -15>>, <<31771, -15>>,
      <<31651, -15>>, <<31525, -15>>, <<31391, -15>>, <<31251, -15>>, <<31105, -15>>, <<30952, -15>>,
      <<30792, -15>>, <<30626, -15>>, <<30453, -15>>, <<30274, -15>>, <<30088, -15>>, <<29896, -15>>,
      <<29698, -15>>, <<29493, -15>>, <<29283, -15>>, <<29066, -15>>, <<28842, -15>>, <<28613, -15>>,
      <<28378, -15>>, <<28137, -15>>, <<27889, -15>>, <<27636, -15>>, <<27377, -15>>, <<27112, -15>>,
      <<26842, -15>>, <<26566, -15>>, <<26284, -15>>, <<25997, -15>>, <<25704, -15>>, <<25405, -15>>,
      <<25102, -15>>, <<24793, -15>>, <<24479, -15>>, <<24159, -15>>, <<23835, -15>>, <<23505, -15>>,
      <<23170, -15>>, <<22831, -15>>, <<22487, -15>>, <<22138, -15>>, <<21784, -15>>, <<21426, -15>>,
      <<21063, -15>>, <<20696, -15>>, <<20324, -15>>, <<19948, -15>>, <<19568, -15>>, <<19183, -15>>,
      <<18795, -15>>, <<18403, -15>>, <<18006, -15>>, <<17606, -15>>, <<17202, -15>>, <<16795, -15>>,
      <<16384, -15>>, <<31939, -16>>, <<31103, -16>>, <<30261, -16>>, <<29413, -16>>, <<28558, -16>>,
      <<27697, -16>>, <<26830, -16>>, <<25957, -16>>, <<25080, -16>>, <<24196, -16>>, <<23308, -16>>,
      <<22415, -16>>, <<21517, -16>>, <<20614, -16>>, <<19707, -16>>, <<18796, -16>>, <<17881, -16>>,
      <<16962, -16>>, <<32079, -17>>, <<30227, -17>>, <<28369, -17>>, <<26505, -17>>, <<24635, -17>>,
      <<22760, -17>>, <<20881, -17>>, <<18997, -17>>, <<17108, -17>>, <<30433, -18>>, <<26643, -18>>,
      <<22847, -18>>, <<19047, -18>>, <<30485, -19>>, <<22869, -19>>, <<30498, -20>>, <<30501, -21>>,
      <<18073, -68>>, <<-30501, -21>>, <<-30498, -20>>, <<-22869, -19>>, <<-30485, -19>>, <<-19047, -18>>,
      <<-22847, -18>>, <<-26643, -18>>, <<-30433, -18>>, <<-17108, -17>>, <<-18997, -17>>, <<-20881, -17>>,
      <<-22760, -17>>, <<-24635, -17>>, <<-26505, -17>>, <<-28369, -17>>, <<-30227, -17>>, <<-32079, -17>>,
      <<-16962, -16>>, <<-17881, -16>>, <<-18796, -16>>, <<-19707, -16>>, <<-20614, -16>>, <<-21517, -16>>,
      <<-22415, -16>>, <<-23308, -16>>, <<-24196, -16>>, <<-25080, -16>>, <<-25957, -16>>, <<-26830, -16>>,
      <<-27697, -16>>, <<-28558, -16>>, <<-29413, -16>>, <<-30261, -16>>, <<-31103, -16>>, <<-31939, -16>>,
      <<-16384, -15>>, <<-16795, -15>>, <<-17202, -15>>, <<-17606, -15>>, <<-18006, -15>>, <<-18403, -15>>,
      <<-18795, -15>>, <<-19183, -15>>, <<-19568, -15>>, <<-19948, -15>>, <<-20324, -15>>, <<-20696, -15>>,
      <<-21063, -15>>, <<-21426, -15>>, <<-21784, -15>>, <<-22138, -15>>, <<-22487, -15>>, <<-22831, -15>>,
      <<-23170, -15>>, <<-23505, -15>>, <<-23835, -15>>, <<-24159, -15>>, <<-24479, -15>>, <<-24793, -15>>,
      <<-25102, -15>>, <<-25405, -15>>, <<-25704, -15>>, <<-25997, -15>>, <<-26284, -15>>, <<-26566, -15>>,
      <<-26842, -15>>, <<-27112, -15>>, <<-27377, -15>>, <<-27636, -15>>, <<-27889, -15>>, <<-28137, -15>>,
      <<-28378, -15>>, <<-28613, -15>>, <<-28842, -15>>, <<-29066, -15>>, <<-29283, -15>>, <<-29493, -15>>,
      <<-29698, -15>>, <<-29896, -15>>, <<-30088, -15>>, <<-30274, -15>>, <<-30453, -15>>, <<-30626, -15>>,
      <<-30792, -15>>, <<-30952, -15>>, <<-31105, -15>>, <<-31251, -15>>, <<-31391, -15>>, <<-31525, -15>>,
      <<-31651, -15>>, <<-31771, -15>>, <<-31885, -15>>, <<-31991, -15>>, <<-32091, -15>>, <<-32184, -15>>,
      <<-32270, -15>>, <<-32350, -15>>, <<-32422, -15>>, <<-32488, -15>>, <<-32546, -15>>, <<-32598, -15>>,
      <<-32643, -15>>, <<-32681, -15>>, <<-32713, -15>>, <<-32737, -15>>, <<-32754, -15>>, <<-32765, -15>>,
      <<-16384, -14>>
   >>

MkFloat(t) == [m |-> t[1], e |-> t[2]]

tan_half(p) == MkFloat(TanHalfTable[p + 1])

sin(p) == MkFloat(SinTable[p + 1])

cos(p) == MkFloat(CosTable[p + 1])

(***************************************************************************)
(* Results: a call returns a value or raises a Python exception.           *)
(***************************************************************************)
NoValue == "no value"

Ok(v) == [err |-> "none", val |-> v]

Raise(e) == [err |-> e, val |-> NoValue]

\* x / y on floats.
Div(x, y) == IF y.m = 0 THEN Raise("ZeroDivisionError") ELSE Ok(FDiv(x, y))

\* math.log(x).
log(x) == IF x.m <= 0 THEN Raise("ValueError") ELSE Ok(FLog(x))

\* math.log(q) of a quotient q that may have raised.
LogOf(q) == IF q.err # "none" THEN q ELSE log(q.val)

\* x * r of a factor r that may have raised.
Times(x, r) == IF r.err # "none" THEN r ELSE Ok(FMul(x, r.val))

\* f * g of two factors evaluated in this order.
Product(f, g) ==
   IF f.err # "none" THEN f
   ELSE IF g.err # "none" THEN g
   ELSE Ok(FMul(f.val, g.val))

\* The first exception among results evaluated in this order, or "none".
RECURSIVE FirstError(_)
FirstError(rs) ==
   IF rs = <<>> THEN "none"
   ELSE IF Head(rs).err # "none" THEN Head(rs).err
   ELSE FirstError(Tail(rs))

(***************************************************************************)
(* calculate_switching_time                                                *)
(***************************************************************************)
\* prefactor = ((alpha**2 + 1)/(gamma * alpha)) * (1.0 / (H**2 - Hk**2))
Prefactor(mp) ==
   Product(Div(FAdd(FMul(mp.alpha, mp.alpha), One), FMul(mp.gamma, mp.alpha)),
           Div(One, FSub(FMul(mp.H, mp.H), FMul(mp.Hk, mp.Hk))))

TermA_swapped(mp, p_start, p_now) ==
   Times(mp.H, LogOf(Div(tan_half(p_start), tan_half(p_now))))

\* a = H * log(tan(p_now/2) / tan(p_start/2))
TermA(mp, p_start, p_now) ==
   Times(mp.H, LogOf(Div(tan_half(p_now), tan_half(p_start))))

\* b = Hk * log((H - Hk*cos(p_start)) / (H - Hk*cos(p_now)))
TermB(mp, p_start, p_now) ==
   Times(mp.Hk, LogOf(Div(FSub(mp.H, FMul(mp.Hk, cos(p_start))),
                          FSub(mp.H, FMul(mp.Hk, cos(p_now))))))

TermC_unnormalised(mp, p_start, p_now) ==
   Times(mp.Hk, log(sin(p_now)))

\* c = Hk * log(sin(p_now) / sin(p_start))
TermC(mp, p_start, p_now) ==
   Times(mp.Hk, LogOf(Div(sin(p_now), sin(p_start))))

\* return prefactor * (a + b + c)
PutTogether(prefactor, a, b, c) ==
   IF FirstError(<<prefactor, a, b, c>>) # "none"
   THEN Raise(FirstError(<<prefactor, a, b, c>>))
   ELSE Ok(FMul(prefactor.val, FAdd(FAdd(a.val, b.val), c.val)))

SwitchingTimeExpression(mp, p_start, p_now) ==
   PutTogether(Prefactor(mp), TermA(mp, p_start, p_now),
               TermB(mp, p_start, p_now), TermC(mp, p_start, p_now))

\* The function with the guard the source comments out.
calculate_switching_time_guarded(mp, p_start, p_now) ==
   IF 2 * p_now >= AngleUnits THEN Ok(Infinity)
   ELSE SwitchingTimeExpression(mp, p_start, p_now)

calculate_switching_time(mp, p_start, p_now) ==
   SwitchingTimeExpression(mp, p_start, p_now)

(***************************************************************************)
(* calculate_azimuthal                                                     *)
(***************************************************************************)
\* if a < 0: a += 2*pi
ShiftNegative(a) == IF a.m < 0 THEN FAdd(a, TwoPi) ELSE a

azi_into_range(azi) == ShiftNegative(FMod(azi, TwoPi))

\* azi_into_range of a value that may have raised.
IntoRange(r) == IF r.err # "none" THEN r ELSE Ok(azi_into_range(r.val))

\* no_range_azi = (-1/alpha) * log(tan(p_now/2) / tan(p_start/2))
calculate_azimuthal(mp, p_start, p_now) ==
   IntoRange(Product(Div(FromInt(-1), mp.alpha),
                     LogOf(Div(tan_half(p_now), tan_half(p_start)))))

(***************************************************************************)
(* generate_dynamics                                                       *)
(***************************************************************************)
\* sp.linspace(start, stop, num): num equally spaced samples, the first is
\* start and (for num >= 2) the last is stop.  A negative num is rejected by
\* the numpy releases that check it and gives no samples in the others.
linspace(start, stop, num, rejects_negative) ==
   IF num < 0 /\ rejects_negative THEN Raise("ValueError")
   ELSE IF num <= 0 THEN Ok(<<>>)
   ELSE IF num = 1 THEN Ok(<<start>>)
   ELSE Ok([i \in 1..num |-> start + ((i - 1) * (stop - start)) \div (num - 1)])

\* utils.SphPoint(r, azi, pol).
SphPoint(r, azi, pol) == [r |-> r, azi |-> azi, pol |-> pol]

azis_from_previous_sample(mp, start_angle, pols) ==
   [i \in 1..Len(pols) |->
      calculate_azimuthal(mp, IF i = 1 THEN start_angle ELSE pols[i - 1], pols[i])]

\* [calculate_azimuthal(mag_params, start_angle, p) for p in pols]
azis_of(mp, start_angle, pols) ==
   [i \in 1..Len(pols) |-> calculate_azimuthal(mp, start_angle, pols[i])]

\* [calculate_switching_time(mag_params, start_angle, p) for p in pols]
times_of(mp, start_angle, pols) ==
   [i \in 1..Len(pols) |-> calculate_switching_time(mp, start_angle, pols[i])]

Values(rs) == [i \in 1..Len(rs) |-> rs[i].val]

\* sphs = [utils.SphPoint(1.0, azi, pol) for azi, pol in zip(azis, pols)]
\* return (sphs, times)
Trajectory(pols, azis, times) ==
   IF FirstError(azis \o times) # "none" THEN Raise(FirstError(azis \o times))
   ELSE Ok([sphs |-> [i \in 1..Len(pols) |-> SphPoint(One, azis[i].val, pols[i])],
            times |-> Values(times)])

TrajectoryOver(mp, start_angle, pols) ==
   IF pols.err # "none" THEN pols
   ELSE Trajectory(pols.val, azis_of(mp, start_angle, pols.val),
                   times_of(mp, start_angle, pols.val))

generate_dynamics(mp, start_angle, end_angle, steps, rejects_negative) ==
   TrajectoryOver(mp, start_angle,
                  linspace(start_angle, end_angle, steps, rejects_negative))

(***************************************************************************)
(* calculate_equivalent_dynamics                                           *)
(***************************************************************************)
last_item(polars) ==
   IF polars = <<>> THEN Raise("IndexError")
   ELSE Ok([start_angle |-> polars[Len(polars)], polars |-> polars])

\* polars[0]: the item read, and the list as the read leaves it.
first_item(polars) ==
   IF polars = <<>> THEN Raise("IndexError")
   ELSE Ok([start_angle |-> polars[1], polars |-> polars])

\* start_angle = polars[0]
reference_of(polars) == first_item(polars)

\* return exact_times, exact_azis
Equivalent(exact_times, exact_azis) ==
   IF FirstError(exact_times \o exact_azis) # "none"
   THEN Raise(FirstError(exact_times \o exact_azis))
   ELSE Ok([exact_times |-> Values(exact_times), exact_azis |-> Values(exact_azis)])

EquivalentFrom(mp, ref, polars) ==
   IF ref.err # "none" THEN ref
   ELSE Equivalent(times_of(mp, ref.val.start_angle, polars),
                   azis_of(mp, ref.val.start_angle, polars))

calculate_equivalent_dynamics(mp, polars) ==
   EquivalentFrom(mp, reference_of(polars), polars)

ListAfter(ref, polars) == IF ref.err # "none" THEN polars ELSE ref.val.polars

polars_after_pop(polars) == IF polars = <<>> THEN polars ELSE Tail(polars)

\* The caller's list once calculate_equivalent_dynamics has returned or raised.
polars_after(polars) == ListAfter(first_item(polars), polars)

(***************************************************************************)
(* The callers.  A caller holds a parameters object and a list of polar    *)
(* angles, calls one of the four functions, and takes the result.          *)
(***************************************************************************)
VARIABLES
   mag_params,        \* the magnetic parameters object: H(None), Hk(), alpha, gamma
   rejects_negative,  \* whether the installed linspace rejects a negative num
   polars,            \* the caller's list of polar angles
   traj,              \* the (sphs, times) the caller got from generate_dynamics
   ret                \* the call in progress: function, arguments, result

vars == <<mag_params, rejects_negative, polars, traj, ret>>

\* 0, pi/18, pi/2, 17*pi/18 and pi.
Angles == {0, 12, 108, 204, 216}

\* 0.9, 1.0 and 1.1.
FieldValues == {Rat(9, 10), FromInt(1), Rat(11, 10)}

AnisotropyValues == {Zero, FromInt(1)}

\* -1, 1/2 and 2^60.
DampingValues == {FromInt(-1), Rat(1, 2), Norm(1, 60)}

GammaValues == {FromInt(1), FromInt(2)}

PolarLists == {<<>>, <<12, 108, 204>>}

Idle == [op |-> "idle", args |-> <<>>, err |-> "none", val |-> NoValue]

NoTrajectory == [sphs |-> <<>>, times |-> <<>>]

Call(op, args, r) == [op |-> op, args |-> args, err |-> r.err, val |-> r.val]

Init ==
   /\ mag_params \in [H : FieldValues, Hk : AnisotropyValues,
                      alpha : DampingValues, gamma : GammaValues]
   /\ rejects_negative \in BOOLEAN
   /\ polars \in PolarLists
   /\ traj = NoTrajectory
   /\ ret = Idle

CallSwitchingTime ==
   /\ ret.op = "idle"
   /\ \E p_start \in Angles, p_now \in Angles :
         ret' = Call("calculate_switching_time", <<p_start, p_now>>,
                     calculate_switching_time(mag_params, p_start, p_now))
   /\ UNCHANGED <<mag_params, rejects_negative, polars, traj>>

CallAzimuthal ==
   /\ ret.op = "idle"
   /\ \E p_start \in Angles, p_now \in Angles :
         ret' = Call("calculate_azimuthal", <<p_start, p_now>>,
                     calculate_azimuthal(mag_params, p_start, p_now))
   /\ UNCHANGED <<mag_params, rejects_negative, polars, traj>>

\* (sphs, times) = generate_dynamics(...)
CallGenerateDynamics ==
   /\ ret.op = "idle"
   /\ \E start_angle \in Angles, end_angle \in Angles, steps \in -1..MaxSteps :
         /\ ret' = Call("generate_dynamics", <<start_angle, end_angle, steps>>,
                        generate_dynamics(mag_params, start_angle, end_angle, steps,
                                          rejects_negative))
         /\ traj' = IF ret'.err = "none" THEN ret'.val ELSE NoTrajectory
   /\ UNCHANGED <<mag_params, rejects_negative, polars>>

\* calculate_equivalent_dynamics(mag_params, polars) on the caller's list.
CallEquivalentDynamics ==
   /\ ret.op = "idle"
   /\ ret' = Call("calculate_equivalent_dynamics", <<polars>>,
                  calculate_equivalent_dynamics(mag_params, polars))
   /\ polars' = polars_after(polars)
   /\ UNCHANGED <<mag_params, rejects_negative, traj>>

Pols(sphs) == [i \in 1..Len(sphs) |-> sphs[i].pol]

Azis(sphs) == [i \in 1..Len(sphs) |-> sphs[i].azi]

\* The polar angles of the trajectory just generated, fed back as plot_vs_exact
\* feeds the angles of a trajectory: pols = [m.pol for m in ...].
CallEquivalentOnTrajectory ==
   /\ ret.op = "generate_dynamics"
   /\ ret.err = "none"
   /\ ret' = Call("calculate_equivalent_dynamics", <<Pols(traj.sphs)>>,
                  calculate_equivalent_dynamics(mag_params, Pols(traj.sphs)))
   /\ UNCHANGED <<mag_params, rejects_negative, polars, traj>>

\* The caller is done with the result.
Return ==
   /\ ret.op # "idle"
   /\ ret' = Idle
   /\ traj' = NoTrajectory
   /\ UNCHANGED <<mag_params, rejects_negative, polars>>

Next ==
   \/ CallSwitchingTime
   \/ CallAzimuthal
   \/ CallGenerateDynamics
   \/ CallEquivalentDynamics
   \/ CallEquivalentOnTrajectory
   \/ Return

Spec == Init /\ [][Next]_vars

(***************************************************************************)
(* The properties.                                                         *)
(***************************************************************************)
\* An angle of the open interval (0, pi).
Interior(p) == 0 < p /\ p < AngleUnits

\* H > Hk.
Supercritical == FLt(mag_params.Hk, mag_params.H)

\* alpha > 0 and gamma > 0.
PositiveDamping == mag_params.alpha.m > 0 /\ mag_params.gamma.m > 0

ScalarCall(op) == ret.op = op /\ Len(ret.args) = 2

\* C1: for H > Hk, alpha > 0, gamma > 0, 0 < start_angle < end_angle < pi and
\* steps >= 2, generate_dynamics returns times that are strictly increasing in
\* index, over the whole sampled range, the samples beyond pi/2 included.
C1_TimesStrictlyIncreasing ==
   (/\ ret.op = "generate_dynamics"
    /\ Supercritical
    /\ PositiveDamping
    /\ 0 < ret.args[1]
    /\ ret.args[1] < ret.args[2]
    /\ ret.args[2] < AngleUnits
    /\ ret.args[3] >= 2)
   => /\ ret.err = "none"
      /\ \A i \in 1..(Len(ret.val.times) - 1) :
            FLt(ret.val.times[i], ret.val.times[i + 1])

\* A trajectory of at least three samples with increasing times on both sides
\* of pi/2.
C1_Witness ==
   /\ ret.op = "generate_dynamics"
   /\ ret.err = "none"
   /\ Supercritical
   /\ mag_params.alpha.m > 0
   /\ 0 < ret.args[1]
   /\ ret.args[1] < ret.args[2]
   /\ ret.args[2] < AngleUnits
   /\ ret.args[3] >= 3
   /\ \E i \in 1..(Len(ret.val.times) - 1) :
         /\ 2 * ret.val.sphs[i].pol >= AngleUnits
         /\ FLt(ret.val.times[1], ret.val.times[i])
         /\ FLt(ret.val.times[i], ret.val.times[i + 1])

\* C2: for every alpha # 0 and p_start, p_now in (0, pi), calculate_azimuthal
\* returns a value a with 0 <= a < 2*pi, the upper bound strict.
C2_AzimuthInRange ==
   (/\ ScalarCall("calculate_azimuthal")
    /\ mag_params.alpha.m # 0
    /\ Interior(ret.args[1])
    /\ Interior(ret.args[2]))
   => /\ ret.err = "none"
      /\ ret.val.m >= 0
      /\ FLt(ret.val, TwoPi)

\* C3: generate_dynamics with steps >= 1 returns steps points and steps times;
\* the polar angles are equally spaced from start_angle to end_angle in
\* sampling order, every radius is 1.0, and the azimuth and the time at index i
\* are those of sample i with p_start fixed to start_angle.
C3_TrajectoryPerSample ==
   (/\ ret.op = "generate_dynamics"
    /\ ret.args[3] >= 1
    /\ ret.err = "none")
   => /\ Len(ret.val.sphs) = ret.args[3]
      /\ Len(ret.val.times) = ret.args[3]
      /\ ret.val.sphs[1].pol = ret.args[1]
      /\ ret.args[3] >= 2 => ret.val.sphs[ret.args[3]].pol = ret.args[2]
      /\ \A i \in 1..(ret.args[3] - 2) :
            ret.val.sphs[i + 1].pol - ret.val.sphs[i].pol
               = ret.val.sphs[i + 2].pol - ret.val.sphs[i + 1].pol
      /\ \A i \in 1..ret.args[3] :
            /\ ret.val.sphs[i].r = One
            /\ ret.val.sphs[i].azi
                  = calculate_azimuthal(mag_params, ret.args[1],
                                        ret.val.sphs[i].pol).val
            /\ ret.val.times[i]
                  = calculate_switching_time(mag_params, ret.args[1],
                                             ret.val.sphs[i].pol).val

\* A trajectory of at least three distinct samples whose later azimuths are
\* not zero.
C3_Witness ==
   /\ ret.op = "generate_dynamics"
   /\ ret.err = "none"
   /\ ret.args[3] >= 3
   /\ ret.args[1] # ret.args[2]
   /\ ret.val.sphs[3].azi # Zero
   /\ ret.val.times[3] # Zero

\* C4: for H > Hk and p in (0, pi), calculate_switching_time(params, p, p) and
\* calculate_azimuthal(params, p, p) return 0; so the first time and the first
\* azimuth of a generated trajectory are 0.
C4_ZeroAtStart ==
   /\ (/\ ScalarCall("calculate_switching_time")
       /\ Supercritical
       /\ Interior(ret.args[1])
       /\ ret.args[1] = ret.args[2])
      => (ret.err = "none" /\ ret.val = Zero)
   /\ (/\ ScalarCall("calculate_azimuthal")
       /\ Supercritical
       /\ Interior(ret.args[1])
       /\ ret.args[1] = ret.args[2])
      => (ret.err = "none" /\ ret.val = Zero)
   /\ (/\ ret.op = "generate_dynamics"
       /\ Supercritical
       /\ Interior(ret.args[1])
       /\ ret.args[3] >= 1
       /\ ret.err = "none")
      => (ret.val.times[1] = Zero /\ ret.val.sphs[1].azi = Zero)

\* A switching time from an angle off the equator to itself, with anisotropy.
C4_Witness ==
   /\ ScalarCall("calculate_switching_time")
   /\ Supercritical
   /\ mag_params.Hk.m # 0
   /\ Interior(ret.args[1])
   /\ 2 * ret.args[1] # AngleUnits
   /\ ret.args[1] = ret.args[2]
   /\ ret.err = "none"

\* C5: the polar angles of a generated trajectory, fed to
\* calculate_equivalent_dynamics, give back the trajectory's times and
\* azimuths, element for element.
C5_RoundTrip ==
   (/\ ret.op = "calculate_equivalent_dynamics"
    /\ Len(traj.sphs) >= 1)
   => /\ ret.err = "none"
      /\ ret.val.exact_times = traj.times
      /\ ret.val.exact_azis = Azis(traj.sphs)

\* The angles of a trajectory of at least three distinct samples, fed back.
C5_Witness ==
   /\ ret.op = "calculate_equivalent_dynamics"
   /\ Len(traj.sphs) >= 3
   /\ traj.sphs[1].pol # traj.sphs[3].pol
   /\ ret.err = "none"
   /\ ret.val.exact_times[3] # Zero

\* C6: whenever H <= Hk, calculate_switching_time raises an error for every
\* p_start, p_now in (0, pi) and never returns a time (stated here for
\* alpha > 0 and gamma > 0, so that H <= Hk is all that is wrong).
C6_SubcriticalRaises ==
   (/\ ScalarCall("calculate_switching_time")
    /\ FLe(mag_params.H, mag_params.Hk)
    /\ PositiveDamping
    /\ Interior(ret.args[1])
    /\ Interior(ret.args[2]))
   => ret.err # "none"

\* C7: if p_start or p_now is exactly 0 or exactly pi, calculate_switching_time
\* and calculate_azimuthal raise an error and return no value (stated here for
\* H > Hk, alpha > 0 and gamma > 0, so that the angle is all that is wrong).
C7_PoleRaises ==
   (/\ ScalarCall("calculate_switching_time") \/ ScalarCall("calculate_azimuthal")
    /\ Supercritical
    /\ PositiveDamping
    /\ \/ ret.args[1] \in {0, AngleUnits}
       \/ ret.args[2] \in {0, AngleUnits})
   => ret.err # "none"

\* C8: generate_dynamics with a step count that is zero or negative raises an
\* error and never returns a trajectory.
C8_NoSamplesRaises ==
   (/\ ret.op = "generate_dynamics"
    /\ ret.args[3] <= 0)
   => ret.err # "none"

\* C9, as claimed: calculate_switching_time with p_now = pi/2, valid parameters
\* (H > Hk, alpha > 0, gamma > 0) and p_start in (0, pi) is a domain error and
\* returns no finite time.
C9_EquatorIsDomainError ==
   (/\ ScalarCall("calculate_switching_time")
    /\ Supercritical
    /\ PositiveDamping
    /\ Interior(ret.args[1])
    /\ 2 * ret.args[2] = AngleUnits)
   => ~ (ret.err = "none" /\ IsFinite(ret.val))

\* C9, as amended: calculate_switching_time with p_now = pi/2, valid parameters
\* (H > Hk, alpha > 0, gamma > 0) and p_start in (0, pi) raises no error and
\* returns a finite time.
C9_EquatorIsFinite ==
   (/\ ScalarCall("calculate_switching_time")
    /\ Supercritical
    /\ PositiveDamping
    /\ Interior(ret.args[1])
    /\ 2 * ret.args[2] = AngleUnits)
   => (ret.err = "none" /\ IsFinite(ret.val))

\* A positive time from pi/18 to pi/2.
C9_Witness ==
   /\ ScalarCall("calculate_switching_time")
   /\ Supercritical
   /\ PositiveDamping
   /\ ret.args[1] < ret.args[2]
   /\ Interior(ret.args[1])
   /\ 2 * ret.args[2] = AngleUnits
   /\ ret.err = "none"
   /\ ret.val.m > 0

\* C10: a call of any of the four functions leaves H, Hk, alpha and gamma of
\* the parameters object and the caller's list of polar angles as they were.
C10_CallsOnlyRead ==
   [][ret'.op # "idle" => (mag_params' = mag_params /\ polars' = polars)]_vars

\* calculate_equivalent_dynamics has returned for the caller's own list, which
\* is not empty.
C10_Witness ==
   /\ ret.op = "calculate_equivalent_dynamics"
   /\ ret.args[1] = polars
   /\ Len(polars) >= 2
   /\ Len(traj.sphs) = 0
   /\ ret.err = "none"
====
